---- MODULE Spec2Model ----
(***************************************************************************)
(* A model of the AI Route Optimizer frontend: the App orchestrator, the   *)
(* FileUpload pipeline, the API client and the helpers they call.          *)
(***************************************************************************)
EXTENDS Integers, Sequences, FiniteSets, TLC

\* ------------------------------------------------------------------ bounds
\* Largest number of requests / uploads started in one session.
MaxStarted == 3
\* Largest number of constraint edits in one session.
MaxEdits == 1
\* Largest number of rows of a validated array.
MaxRows == 3
\* Largest number of API client calls in one run of the API client.
MaxCalls == 2
\* Route indices go from 0 to MaxIndex.
MaxIndex == 17
\* Durations go from 0 to MaxMinutes tenths of a minute.
MaxMinutes == 1250
\* Distances go from 0 to MaxDistance tenths of a meter.
MaxDistance == 10150
\* Largest number of points given to calculateMapBounds.
MaxPoints == 3
\* The delay given to debounce, in units of time.
Delay == 2
\* Largest number of calls of a debounced wrapper, and the last instant.
MaxWrapperCalls == 4
MaxTime == 8
\* Largest number of routes in an exported bundle, and of exports in a run.
MaxRoutes == 2
MaxExports == 2

\* --------------------------------------------------------- JavaScript values
\* A nullable value: None is null, Some(x) is the value x.
None == <<>>
Some(x) == <<x>>
IsNull(o) == o = <<>>
Val(o) == o[1]

\* Tagged JavaScript values; "absent" is a key the object does not have.
Num(k) == [t |-> "number", n |-> k, s |-> ""]
Str(x) == [t |-> "string", n |-> 0, s |-> x]
Null == [t |-> "null", n |-> 0, s |-> ""]
Undefined == [t |-> "undefined", n |-> 0, s |-> ""]
Absent == [t |-> "absent", n |-> 0, s |-> ""]

\* JavaScript truthiness: 0, '', null and undefined (a missing key reads as
\* undefined) are falsy.
Truthy(v) ==
    \/ v.t = "number" /\ v.n # 0
    \/ v.t = "string" /\ v.s # ""
    \/ v.t = "boolean" /\ v.n = 1

\* v < k and v > k for a number k; a non-number that is not numeric text
\* converts to NaN and every comparison with NaN is false.
JsLess(v, k) == v.t = "number" /\ v.n < k
JsGreaterMutant(v, k) == v.t = "number" /\ v.n >= k
JsGreater(v, k) == v.t = "number" /\ v.n > k

\* An error string shown to the user: a fixed text, followed (validation
\* failures only) by the joined list of per-row messages.
Msg(text) == [text |-> text, details |-> <<>>]

\* ---------------------------------------------------- validateDeliveryData
requiredFields == <<"id", "customer_name", "lat", "lng", "address">>

\* The argument of validateDeliveryData: an array of records, or some other
\* value (null, undefined, an object, a string).
ArrayOf(items) == [kind |-> "array", items |-> items]
NotArray(kind) == [kind |-> kind, items |-> <<>>]

MissingError(index, field, item) ==
    [row |-> index + 1, kind |-> "Missing or empty field", field |-> field,
     value |-> item[field]]
LatitudeError(index, item) ==
    [row |-> index + 1, kind |-> "Invalid latitude value", field |-> "lat",
     value |-> item.lat]
LongitudeError(index, item) ==
    [row |-> index + 1, kind |-> "Invalid longitude value", field |-> "lng",
     value |-> item.lng]

\* The condition of the inner forEach: the field is reported when the key is
\* absent or its value is null, undefined or ''.
FieldIsMissingMutant(item, field) ==
    ~ Truthy(item[field])
FieldIsMissing(item, field) ==
    \/ item[field].t = "absent"
    \/ item[field].t = "null"
    \/ item[field].t = "undefined"
    \/ item[field] = Str("")

RECURSIVE FieldErrors(_, _, _)
FieldErrors(item, index, k) ==
    IF k > Len(requiredFields) THEN <<>>
    ELSE (IF FieldIsMissing(item, requiredFields[k])
          THEN <<MissingError(index, requiredFields[k], item)>>
          ELSE <<>>) \o FieldErrors(item, index, k + 1)

\* One pass of data.forEach: the messages pushed for the item at index.
RowErrors(item, index) ==
    FieldErrors(item, index, 1)
    \o (IF Truthy(item.lat) /\ (JsLess(item.lat, -90) \/ JsGreater(item.lat, 90))
        THEN <<LatitudeError(index, item)>> ELSE <<>>)
    \o (IF Truthy(item.lng) /\ (JsLess(item.lng, -180) \/ JsGreater(item.lng, 180))
        THEN <<LongitudeError(index, item)>> ELSE <<>>)

\* The errors array after data.forEach, before it is truncated.
RECURSIVE CollectFrom(_, _)
CollectFrom(items, k) ==
    IF k > Len(items) THEN <<>>
    ELSE RowErrors(items[k], k - 1) \o CollectFrom(items, k + 1)
CollectErrors(items) == CollectFrom(items, 1)

ErrorLimit == 10
SliceMutant(s, n) == s
Slice(s, n) == IF Len(s) <= n THEN s ELSE SubSeq(s, 1, n)

NonEmptyArrayError == [row |-> 0, kind |-> "Data must be a non-empty array",
                       field |-> "", value |-> Undefined]

\* The early return of validateDeliveryData.
IsRejectedOutrightMutant(data) == data.kind # "array"
IsRejectedOutright(data) == data.kind # "array" \/ Len(data.items) = 0

validateDeliveryData(data) ==
    IF IsRejectedOutright(data)
    THEN [isValid |-> FALSE, errors |-> <<NonEmptyArrayError>>]
    ELSE [isValid |-> Len(CollectErrors(data.items)) = 0,
          errors |-> Slice(CollectErrors(data.items), ErrorLimit)]

\* ------------------------------------------------------------- API client
\* How one HTTP request ends, as axios reports it: a 2xx response with a
\* body, an error response whose body may carry a detail, or no response at
\* all (connection failure, or the 120000 ms timeout).
GoodRow(i) == [id |-> Num(i), customer_name |-> Str("Test"), lat |-> Num(40),
               lng |-> Num(-74), address |-> Str("123 Main St")]
NoBody == [data |-> <<>>, routes |-> <<>>]
Bodies ==
    {[data |-> d, routes |-> r] :
        d \in {<<>>, <<GoodRow(1)>>}, r \in {<<>>, <<"route-1">>}}
Details == {Absent, Str(""), Str("Server detail")}
HttpOutcomes ==
    {[kind |-> "2xx", body |-> b, detail |-> Absent] : b \in Bodies}
    \cup {[kind |-> "error_response", body |-> NoBody, detail |-> d] : d \in Details}
    \cup {[kind |-> "no_response", body |-> NoBody, detail |-> Absent]}

\* error.response?.data?.detail
ResponseDetail(h) == IF h.kind = "error_response" THEN h.detail ELSE Undefined

Returned(body) == [threw |-> FALSE, data |-> body, message |-> ""]
Threw(message) == [threw |-> TRUE, data |-> NoBody, message |-> message]

\* detail || fallback
DetailOrMutant(h, fallback) == fallback
DetailOr(h, fallback) ==
    IF Truthy(ResponseDetail(h)) THEN ResponseDetail(h).s ELSE fallback

uploadFile(h) ==
    IF h.kind = "2xx" THEN Returned(h.body)
    ELSE Threw(DetailOr(h, "Failed to upload file"))
generateRoutes(h) ==
    IF h.kind = "2xx" THEN Returned(h.body)
    ELSE Threw(DetailOr(h, "Failed to generate routes"))
getSampleData(h) ==
    IF h.kind = "2xx" THEN Returned(h.body)
    ELSE Threw(DetailOr(h, "Failed to fetch sample data"))
healthCheck(h) ==
    IF h.kind = "2xx" THEN Returned(h.body)
    ELSE Threw("Backend server is not responding")

ApiOps == {"uploadFile", "generateRoutes", "getSampleData", "healthCheck"}
ApiPath(op) ==
    CASE op = "uploadFile" -> [method |-> "POST", url |-> "/upload"]
      [] op = "generateRoutes" -> [method |-> "POST", url |-> "/generate-routes"]
      [] op = "getSampleData" -> [method |-> "GET", url |-> "/get-sample-data"]
      [] op = "healthCheck" -> [method |-> "GET", url |-> "/health"]
ApiSettled(op, h) ==
    CASE op = "uploadFile" -> uploadFile(h)
      [] op = "generateRoutes" -> generateRoutes(h)
      [] op = "getSampleData" -> getSampleData(h)
      [] op = "healthCheck" -> healthCheck(h)

\* --------------------------------------------------------------- variables
VARIABLES
    app,        \* the App component's state (one record per render)
    upload,     \* the FileUpload component's state
    pending,    \* the file handleFile is parsing, if any
    healthReqs, \* healthCheck calls not yet settled
    sampleReqs, \* getSampleData calls not yet settled
    genReqs,    \* generateRoutes calls not yet settled, with their payloads
    started,    \* number of requests and uploads started so far
    edits,      \* number of constraint edits so far
    hist,       \* history: what the last completed load and generation were
    vdata,      \* validation run: the argument of validateDeliveryData
    vresult,    \* validation run: its result, once called
    httpLog,    \* API client run: the HTTP requests sent
    apiCall,    \* API client run: the call awaiting its response
    apiLog,     \* API client run: how each call ended
    call,       \* helper run: the helper called and its argument
    ret,        \* helper run: what it returned, once called
    timeoutId,  \* debounce: the id the wrapper keeps, undefined at first
    timers,     \* debounce: the timeouts set and neither run nor cleared
    now,        \* debounce: the time
    events,     \* debounce: the calls of the wrapper and of func, in order
    exportBtn,  \* the ExportButton component's state
    routeData,  \* ExportButton: the bundle it is given
    alerts,     \* ExportButton: number of alerts raised
    downloads,  \* ExportButton: the files handed to the browser, in order
    resetTimers \* ExportButton: pending timeouts of setExported(false)

appVars == <<app, upload, pending, healthReqs, sampleReqs, genReqs, started, edits, hist>>
validateVars == <<vdata, vresult>>
apiVars == <<httpLog, apiCall, apiLog>>
helperVars == <<call, ret>>
debounceVars == <<timeoutId, timers, now, events>>
exportVars == <<exportBtn, routeData, alerts, downloads, resetTimers>>
vars == <<app, upload, pending, healthReqs, sampleReqs, genReqs, started, edits,
          hist, vdata, vresult, httpLog, apiCall, apiLog, call, ret,
          timeoutId, timers, now, events,
          exportBtn, routeData, alerts, downloads, resetTimers>>

\* ------------------------------------------------------------ App handlers
\* Each handler is the state update it queues; React 18 (createRoot) applies
\* all setState calls of one handler run, or of one continuation after an
\* await, in a single render.
InitialConstraints ==
    [maxStopsPerRoute |-> Num(10), deliveryWindowStart |-> Str("08:00"),
     deliveryWindowEnd |-> Str("18:00"), vehicleCapacity |-> Num(100),
     startLocation |-> Str("Main Warehouse"), startLat |-> Str(""),
     startLng |-> Str("")]

InitialApp ==
    [deliveryData |-> None, constraints |-> InitialConstraints, routes |-> None,
     isGenerating |-> FALSE, error |-> None, backendStatus |-> "checking"]

checkBackendHealth(a, result) ==
    IF ~ result.threw THEN [a EXCEPT !.backendStatus = "online"]
    ELSE [a EXCEPT !.backendStatus = "offline"]

handleDataLoadedMutant(a, data) ==
    [a EXCEPT !.deliveryData = Some(data), !.error = None]
handleDataLoaded(a, data) ==
    [a EXCEPT !.deliveryData = Some(data), !.routes = None, !.error = None]

handleFileErrorMutant(a, errorMsg) ==
    [a EXCEPT !.error = Some(errorMsg), !.routes = None]
handleFileError(a, errorMsg) == [a EXCEPT !.error = Some(errorMsg)]

handleConstraintsChange(a, newConstraints) ==
    [a EXCEPT !.constraints = newConstraints]

\* handleLoadSample up to its await, and its continuation once getSampleData
\* has settled.
handleLoadSampleCall(a) == [a EXCEPT !.error = None]
handleLoadSampleSettledMutant(a, result) ==
    IF ~ result.threw
    THEN [a EXCEPT !.deliveryData =
              IF IsNull(a.deliveryData) THEN Some(result.data.data)
              ELSE Some(Val(a.deliveryData) \o result.data.data),
                   !.routes = None]
    ELSE [a EXCEPT !.error =
              Some(Msg("Failed to load sample data. Please check if backend is running."))]
handleLoadSampleSettled(a, result) ==
    IF ~ result.threw
    THEN [a EXCEPT !.deliveryData = Some(result.data.data), !.routes = None]
    ELSE [a EXCEPT !.error =
              Some(Msg("Failed to load sample data. Please check if backend is running."))]

\* The first statement of handleGenerateRoutes: !deliveryData ||
\* deliveryData.length === 0.
NoDeliveryDataMutant(a) == IsNull(a.deliveryData)
NoDeliveryData(a) == IsNull(a.deliveryData) \/ Len(Val(a.deliveryData)) = 0

\* handleGenerateRoutes when it returns early.
handleGenerateRoutesRejected(a) ==
    [a EXCEPT !.error = Some(Msg("Please upload delivery data first"))]
\* handleGenerateRoutes up to its await, the payload it sends, and its
\* continuation (then / catch / finally) once generateRoutes has settled.
handleGenerateRoutesCallMutant(a) ==
    [a EXCEPT !.isGenerating = TRUE, !.error = None]
handleGenerateRoutesCall(a) ==
    [a EXCEPT !.isGenerating = TRUE, !.error = None, !.routes = None]
GeneratePayload(a) ==
    [delivery_points |-> Val(a.deliveryData), constraints |-> a.constraints]
handleGenerateRoutesSettledMutant(a, result) ==
    IF ~ result.threw
    THEN [a EXCEPT !.routes = Some(result.data.routes), !.isGenerating = FALSE]
    ELSE [a EXCEPT !.error =
              Some(Msg(IF result.message # "" THEN result.message
                       ELSE "Failed to generate routes. Please try again."))]
handleGenerateRoutesSettled(a, result) ==
    IF ~ result.threw
    THEN [a EXCEPT !.routes = Some(result.data.routes), !.isGenerating = FALSE]
    ELSE [a EXCEPT !.error =
              Some(Msg(IF result.message # "" THEN result.message
                       ELSE "Failed to generate routes. Please try again.")),
                   !.isGenerating = FALSE]

\* The disabled attributes of the two buttons.
LoadSampleDisabledMutant(a) == FALSE
LoadSampleDisabled(a) == a.backendStatus # "online"
GenerateDisabledMutant(a) ==
    IsNull(a.deliveryData) \/ a.backendStatus # "online"
GenerateDisabled(a) ==
    IsNull(a.deliveryData) \/ a.isGenerating \/ a.backendStatus # "online"

\* --------------------------------------------------------- ConstraintsForm
\* The text of an input element; n is the integer parseInt reads from it
\* (text that is empty parses to NaN).
Text(x) == Str(x)
Numeral(k) == [t |-> "string", n |-> k, s |-> ToString(k)]

\* parseInt(value) || ''
ParseIntOrEmpty(value) ==
    IF value.s = "" \/ value.n = 0 THEN Str("") ELSE Num(value.n)

\* newConstraints of handleChange.
handleChange(constraints, name, value) ==
    [constraints EXCEPT ![name] =
        IF name = "maxStopsPerRoute" \/ name = "vehicleCapacity"
        THEN ParseIntOrEmpty(value) ELSE value]

ChangeEvents ==
    {[name |-> "maxStopsPerRoute", value |-> Numeral(5)],
     [name |-> "maxStopsPerRoute", value |-> Text("")],
     [name |-> "vehicleCapacity", value |-> Numeral(0)],
     [name |-> "startLocation", value |-> Text("")]}

\* ------------------------------------------------------------ string helpers
CharAt(str, i) == SubSeq(str, i, i)
UpperCaseLetters == "ABCDEFGHIJKLMNOPQRSTUVWXYZ"
LowerCaseLetters == "abcdefghijklmnopqrstuvwxyz"
LowerChar(c) ==
    IF \E i \in 1..Len(UpperCaseLetters) : CharAt(UpperCaseLetters, i) = c
    THEN CharAt(LowerCaseLetters,
                CHOOSE i \in 1..Len(UpperCaseLetters) : CharAt(UpperCaseLetters, i) = c)
    ELSE c
RECURSIVE ToLowerCase(_)
ToLowerCase(str) ==
    IF Len(str) = 0 THEN ""
    ELSE LowerChar(CharAt(str, 1)) \o ToLowerCase(SubSeq(str, 2, Len(str)))
\* str.lastIndexOf(c): the 0-based index of the last c, or -1.
LastIndexOf(str, c) ==
    IF \E i \in 1..Len(str) : CharAt(str, i) = c
    THEN (CHOOSE i \in 1..Len(str) :
             /\ CharAt(str, i) = c
             /\ \A j \in (i + 1)..Len(str) : CharAt(str, j) # c) - 1
    ELSE -1
\* str.slice(start): a negative start counts from the end.
SliceFrom(str, start) ==
    LET from == IF start >= 0 THEN start
                ELSE IF Len(str) + start > 0 THEN Len(str) + start ELSE 0
    IN  IF from >= Len(str) THEN "" ELSE SubSeq(str, from + 1, Len(str))

Digits == "0123456789"
IsDigit(c) == \E i \in 1..Len(Digits) : CharAt(Digits, i) = c
DigitValue(c) == (CHOOSE i \in 1..Len(Digits) : CharAt(Digits, i) = c) - 1
\* Text that reads as an integer: an optional minus sign and digits.
IsIntegerText(str) ==
    LET body == IF Len(str) > 0 /\ CharAt(str, 1) = "-"
                THEN SubSeq(str, 2, Len(str)) ELSE str
    IN  Len(body) > 0 /\ \A i \in 1..Len(body) : IsDigit(CharAt(body, i))
RECURSIVE DigitsValue(_, _)
DigitsValue(str, acc) ==
    IF Len(str) = 0 THEN acc
    ELSE DigitsValue(SubSeq(str, 2, Len(str)), 10 * acc + DigitValue(CharAt(str, 1)))
IntegerValue(str) ==
    IF CharAt(str, 1) = "-" THEN 0 - DigitsValue(SubSeq(str, 2, Len(str)), 0)
    ELSE DigitsValue(str, 0)

\* -------------------------------------------------------------- FileUpload
\* A file the user picks or drops: its name, its MIME type and its text. The
\* text is CSV (a header line and the cells of the lines after it), JSON (the
\* value JSON.parse decodes it to), text no parser accepts, or cannot be read.
Bool(b) == [t |-> "boolean", n |-> IF b THEN 1 ELSE 0, s |-> ""]
CsvText(header, lines) ==
    [kind |-> "csv", header |-> header, lines |-> lines, shape |-> "", items |-> <<>>]
\* shape is "array", with its items, or "object", "number", "string",
\* "boolean", "null", with the one decoded value as the only item.
JsonText(shape, items) ==
    [kind |-> "json", header |-> <<>>, lines |-> <<>>, shape |-> shape, items |-> items]
Garbage == [kind |-> "garbage", header |-> <<>>, lines |-> <<>>, shape |-> "", items |-> <<>>]
Unreadable == [kind |-> "unreadable", header |-> <<>>, lines |-> <<>>, shape |-> "", items |-> <<>>]

FileOf(name, type, content) == [name |-> name, type |-> type, content |-> content]
Files ==
    {FileOf("deliveries.csv", "text/csv",
            CsvText(requiredFields, <<<<"3", "Test", "40", "-74", "123 Main St">>>>)),
     FileOf("partial.csv", "text/csv",
            CsvText(<<"id", "customer_name", "lat", "lng">>,
                    <<<<"3", "Test", "40", "-74">>>>)),
     FileOf("export.xls", "application/vnd.ms-excel",
            CsvText(requiredFields, <<<<"">>, <<"3", "Test", "40">>>>)),
     FileOf("deliveries.json", "", Garbage),
     FileOf("points.txt", "application/json",
            JsonText("array", <<GoodRow(3), GoodRow(4)>>)),
     FileOf("value.JSON", "application/json", JsonText("number", <<Num(5)>>)),
     FileOf("notes.txt", "text/plain",
            CsvText(requiredFields, <<<<"3", "Test", "40", "-74", "123 Main St">>>>)),
     FileOf("README", "", Garbage)}

Resolved(data) == [ok |-> TRUE, data |-> data, message |-> ""]
Rejected(message) == [ok |-> FALSE, data |-> NotArray("undefined"), message |-> message]

\* Papa.parse with dynamicTyping: an empty cell is null, true and false are
\* booleans, numeric text is a number, anything else stays a string.
DynamicType(cell) ==
    IF cell = "" THEN Null
    ELSE IF cell = "true" \/ cell = "TRUE" THEN Bool(TRUE)
    ELSE IF cell = "false" \/ cell = "FALSE" THEN Bool(FALSE)
    ELSE IF IsIntegerText(cell) THEN Num(IntegerValue(cell))
    ELSE Str(cell)
\* Papa.parse with header: the object of one line, keyed by the header; the
\* model keeps the keys validation reads.
ColumnOf(header, field) == CHOOSE k \in 1..Len(header) : header[k] = field
CsvRow(header, line) ==
    [field \in {requiredFields[k] : k \in 1..Len(requiredFields)} |->
        IF \E k \in 1..Len(header) : header[k] = field
        THEN DynamicType(line[ColumnOf(header, field)])
        ELSE Absent]
\* skipEmptyLines
KeptLines(lines) == SelectSeq(lines, LAMBDA line : line # <<"">>)
CsvRows(header, lines) ==
    [k \in 1..Len(KeptLines(lines)) |-> CsvRow(header, KeptLines(lines)[k])]
\* results.errors is not empty: a line with too few or too many fields.
CsvHasErrors(header, lines) ==
    \E k \in 1..Len(KeptLines(lines)) : Len(KeptLines(lines)[k]) # Len(header)

parseCSV(file) ==
    IF file.content.kind = "unreadable" THEN Rejected("Failed to parse CSV")
    ELSE IF file.content.kind # "csv" THEN Rejected("CSV parsing error")
    ELSE IF CsvHasErrors(file.content.header, file.content.lines)
    THEN Rejected("CSV parsing error")
    ELSE Resolved(ArrayOf(CsvRows(file.content.header, file.content.lines)))

\* Array.isArray(data) ? data : [data]
WrapInArray(json) ==
    IF json.shape = "array" THEN json.items ELSE <<json.items[1]>>
parseJSON(file) ==
    IF file.content.kind = "unreadable" THEN Rejected("Failed to read file")
    ELSE IF file.content.kind # "json" THEN Rejected("Invalid JSON format")
    ELSE Resolved(ArrayOf(WrapInArray(file.content)))

\* file.name.toLowerCase().slice(file.name.lastIndexOf('.'))
fileExtension(file) ==
    SliceFrom(ToLowerCase(file.name), LastIndexOf(file.name, "."))

validTypes == {"text/csv", "application/json", "application/vnd.ms-excel"}
validExtensionsMutant == {".csv", ".json", ".txt"}
validExtensions == {".csv", ".json"}
IsValidFileType(file) ==
    file.type \in validTypes \/ fileExtension(file) \in validExtensions

\* The parser handleFile picks; data stays undefined when neither branch is
\* taken.
ParseFile(file) ==
    IF fileExtension(file) = ".csv" \/ file.type = "text/csv"
       \/ file.type = "application/vnd.ms-excel"
    THEN parseCSV(file)
    ELSE IF fileExtension(file) = ".json" \/ file.type = "application/json"
    THEN parseJSON(file)
    ELSE Resolved(NotArray("undefined"))

\* `field in item` throws a TypeError when item is not an object, which is
\* what forEach meets at the first item that is a number, a string, a
\* boolean or null.
IsObject(item) == "t" \notin DOMAIN item
ValidateThrows(data) ==
    /\ ~ IsRejectedOutright(data)
    /\ \E i \in 1..Len(data.items) : ~ IsObject(data.items[i])
InOperatorTypeError == "Cannot use 'in' operator to search for 'id'"

\* What handleFile does with an accepted file once its parser has settled:
\* the upload status it sets and the one callback it invokes, onError with a
\* message or onDataLoaded with the parsed data.
ValidationFailed(errors) == [text |-> "Validation failed: ", details |-> errors]
CallsOnError(message) ==
    [uploadStatus |-> "error", callback |-> "onError", message |-> message,
     data |-> <<>>]
CallsOnDataLoaded(data) ==
    [uploadStatus |-> "success", callback |-> "onDataLoaded", message |-> Msg(""),
     data |-> data]
handleFileSettledMutant(file) ==
    LET parsed == ParseFile(file)
    IN  IF ~ parsed.ok THEN CallsOnError(Msg(parsed.message))
        ELSE IF ValidateThrows(parsed.data) THEN CallsOnError(Msg(InOperatorTypeError))
        ELSE CallsOnDataLoaded(parsed.data.items)
handleFileSettled(file) ==
    LET parsed == ParseFile(file)
        validation == validateDeliveryData(parsed.data)
    IN  IF ~ parsed.ok THEN CallsOnError(Msg(parsed.message))
        ELSE IF ValidateThrows(parsed.data) THEN CallsOnError(Msg(InOperatorTypeError))
        ELSE IF ~ validation.isValid
        THEN CallsOnError(ValidationFailed(validation.errors))
        ELSE CallsOnDataLoaded(parsed.data.items)
\* The files of the model, each with its type check and its outcome.
FileTypeCheck == [file \in Files |-> IsValidFileType(file)]
FileSettled == [file \in Files |-> handleFileSettled(file)]

InitialUpload ==
    [isDragging |-> FALSE, uploadStatus |-> None, fileName |-> "",
     isProcessing |-> FALSE]


\* ----------------------------------------------------------------- history
InitialHist ==
    [routesFor |-> None, lastLoad |-> None, lastLoadId |-> 0, topLoadId |-> 0,
     lastGen |-> None]
LoadCompleted(h, id, data) ==
    [h EXCEPT !.lastLoad = Some(data), !.lastLoadId = id,
              !.topLoadId = IF id > @ THEN id ELSE @,
              !.routesFor = None]

\* ------------------------------------------------------------------ actions
InitApp ==
    /\ app = InitialApp
    /\ upload = InitialUpload
    /\ pending = None
    /\ healthReqs = 1
    /\ sampleReqs = {}
    /\ genReqs = {}
    /\ started = 0
    /\ edits = 0
    /\ hist = InitialHist
InitValidateRun == vdata = ArrayOf(<<>>) /\ vresult = None
InitApiRun == httpLog = <<>> /\ apiCall = None /\ apiLog = <<>>
NoCall == [fn |-> "none"]
InitHelperRun == call = NoCall /\ ret = None
\* debounce(func, delay) has returned its wrapper: timeoutId is undefined.
InitDebounceRun == timeoutId = None /\ timers = {} /\ now = 0 /\ events = <<>>
InitialExportButton == [showMenu |-> FALSE, exported |-> FALSE]
NoRouteData ==
    [routes |-> None, delivery_points |-> None, constraints |-> InitialConstraints]
InitExportRun ==
    /\ exportBtn = InitialExportButton /\ routeData = NoRouteData
    /\ alerts = 0 /\ downloads = <<>> /\ resetTimers = 0

\* The state after App has mounted: the effect has called checkBackendHealth.
Init ==
    /\ InitApp /\ InitValidateRun /\ InitApiRun /\ InitHelperRun
    /\ InitDebounceRun /\ InitExportRun

HealthCheckSettles(h) ==
    /\ healthReqs > 0
    /\ healthReqs' = healthReqs - 1
    /\ app' = checkBackendHealth(app, healthCheck(h))
    /\ UNCHANGED <<upload, pending, sampleReqs, genReqs, started, edits, hist>>
    /\ UNCHANGED <<validateVars, apiVars, helperVars, debounceVars, exportVars>>

\* A click on "Load Sample Data".
HandleLoadSample ==
    /\ ~ LoadSampleDisabled(app)
    /\ started < MaxStarted
    /\ started' = started + 1
    /\ app' = handleLoadSampleCall(app)
    /\ sampleReqs' = sampleReqs \cup {started + 1}
    /\ UNCHANGED <<upload, pending, healthReqs, genReqs, edits, hist>>
    /\ UNCHANGED <<validateVars, apiVars, helperVars, debounceVars, exportVars>>

SampleSettles(id, h) ==
    /\ id \in sampleReqs
    /\ sampleReqs' = sampleReqs \ {id}
    /\ app' = handleLoadSampleSettled(app, getSampleData(h))
    /\ hist' = IF h.kind = "2xx" THEN LoadCompleted(hist, id, h.body.data) ELSE hist
    /\ UNCHANGED <<upload, pending, healthReqs, genReqs, started, edits>>
    /\ UNCHANGED <<validateVars, apiVars, helperVars, debounceVars, exportVars>>

\* A click on "Generate Routes".
HandleGenerateRoutes ==
    /\ ~ GenerateDisabled(app)
    /\ IF NoDeliveryData(app)
       THEN /\ app' = handleGenerateRoutesRejected(app)
            /\ UNCHANGED <<genReqs, started, hist>>
       ELSE /\ started < MaxStarted
            /\ started' = started + 1
            /\ app' = handleGenerateRoutesCall(app)
            /\ genReqs' = genReqs \cup
                   {[id |-> started + 1, payload |-> GeneratePayload(app)]}
            /\ hist' = [hist EXCEPT !.routesFor = None]
    /\ UNCHANGED <<upload, pending, healthReqs, sampleReqs, edits>>
    /\ UNCHANGED <<validateVars, apiVars, helperVars, debounceVars, exportVars>>

GenerateSettles(req, h) ==
    /\ req \in genReqs
    /\ genReqs' = genReqs \ {req}
    /\ app' = handleGenerateRoutesSettled(app, generateRoutes(h))
    /\ hist' = IF h.kind = "2xx"
               THEN [hist EXCEPT !.routesFor = Some(req.payload),
                                 !.lastGen = Some([ok |-> TRUE, routes |-> h.body.routes])]
               ELSE [hist EXCEPT !.lastGen = Some([ok |-> FALSE, routes |-> <<>>])]
    /\ UNCHANGED <<upload, pending, healthReqs, sampleReqs, started, edits>>
    /\ UNCHANGED <<validateVars, apiVars, helperVars, debounceVars, exportVars>>

\* An edit of one field of the constraints form.
HandleChange(e) ==
    /\ edits < MaxEdits
    /\ edits' = edits + 1
    /\ app' = handleConstraintsChange(app, handleChange(app.constraints, e.name, e.value))
    /\ UNCHANGED <<upload, pending, healthReqs, sampleReqs, genReqs, started, hist>>
    /\ UNCHANGED <<validateVars, apiVars, helperVars, debounceVars, exportVars>>

\* The x of the error alert.
DismissError ==
    /\ ~ IsNull(app.error)
    /\ app' = [app EXCEPT !.error = None]
    /\ UNCHANGED <<upload, pending, healthReqs, sampleReqs, genReqs, started, edits, hist>>
    /\ UNCHANGED <<validateVars, apiVars, helperVars, debounceVars, exportVars>>

\* handleFile up to its first await. The drop zone takes no pointer events
\* while a file is being processed.
HandleFile(file) ==
    /\ ~ upload.isProcessing
    /\ IF ~ FileTypeCheck[file]
       THEN /\ upload' = [upload EXCEPT !.uploadStatus = Some("error")]
            /\ app' = handleFileError(app,
                   Msg("Invalid file type. Please upload a CSV or JSON file."))
            /\ UNCHANGED <<pending, started>>
       ELSE /\ started < MaxStarted
            /\ started' = started + 1
            /\ upload' = [upload EXCEPT !.fileName = file.name,
                                        !.isProcessing = TRUE,
                                        !.uploadStatus = None]
            /\ pending' = Some([id |-> started + 1, file |-> file])
            /\ app' = app
    /\ UNCHANGED <<healthReqs, sampleReqs, genReqs, edits, hist>>
    /\ UNCHANGED <<validateVars, apiVars, helperVars, debounceVars, exportVars>>

\* The continuation of handleFile once the parser has settled.
HandleFileParsed ==
    /\ ~ IsNull(pending)
    /\ pending' = None
    /\ LET settled == FileSettled[Val(pending).file]
       IN  /\ upload' = [upload EXCEPT !.uploadStatus = Some(settled.uploadStatus),
                                       !.isProcessing = FALSE]
           /\ IF settled.callback = "onError"
              THEN /\ app' = handleFileError(app, settled.message)
                   /\ hist' = hist
              ELSE /\ app' = handleDataLoaded(app, settled.data)
                   /\ hist' = LoadCompleted(hist, Val(pending).id, settled.data)
    /\ UNCHANGED <<healthReqs, sampleReqs, genReqs, started, edits>>
    /\ UNCHANGED <<validateVars, apiVars, helperVars, debounceVars, exportVars>>

Next ==
    \/ \E h \in HttpOutcomes : HealthCheckSettles(h)
    \/ HandleLoadSample
    \/ \E id \in sampleReqs, h \in HttpOutcomes : SampleSettles(id, h)
    \/ HandleGenerateRoutes
    \/ \E req \in genReqs, h \in HttpOutcomes : GenerateSettles(req, h)
    \/ \E e \in ChangeEvents : HandleChange(e)
    \/ DismissError
    \/ \E file \in Files : HandleFile(file)
    \/ HandleFileParsed

Spec == Init /\ [][Next]_vars

\* Every generate-routes request is answered, fails or times out (the API
\* client gives up after 120000 ms), so its continuation runs.
GenerationSettles == \E req \in genReqs, h \in HttpOutcomes : GenerateSettles(req, h)
SpecLive == Init /\ [][Next]_vars /\ WF_vars(GenerationSettles)

\* main.jsx renders <App /> inside <React.StrictMode>: a production build runs
\* the mount effect once, a development build (npm run dev) mounts, unmounts
\* and mounts again, so the effect and its checkBackendHealth() run twice.
EffectRuns == {1, 2}
InitRoot ==
    /\ app = InitialApp
    /\ upload = InitialUpload
    /\ pending = None
    /\ healthReqs \in EffectRuns
    /\ sampleReqs = {}
    /\ genReqs = {}
    /\ started = 0
    /\ edits = 0
    /\ hist = InitialHist
    /\ InitValidateRun /\ InitApiRun /\ InitHelperRun
    /\ InitDebounceRun /\ InitExportRun
SpecRoot == InitRoot /\ [][Next]_vars

\* ------------------------------------------- validateDeliveryData, on its own
\* The rows validation is run on: a valid row, the same row with one field
\* changed, the row of the test that lacks lat, lng and address, and a row
\* with every field wrong.
FieldCases(field) ==
    CASE field = "id" -> {Absent, Num(0)}
      [] field = "customer_name" -> {Undefined}
      [] field = "lat" -> {Null, Num(0), Num(-91), Num(-90), Num(90), Num(91),
                           Num(100)}
      [] field = "lng" -> {Str(""), Num(0), Num(-181), Num(-180), Num(180),
                           Num(181)}
      [] field = "address" -> {Str("")}
Rows ==
    {GoodRow(1)}
    \cup UNION {{[GoodRow(1) EXCEPT ![requiredFields[k]] = v] :
                    v \in FieldCases(requiredFields[k])} : k \in 1..Len(requiredFields)}
    \cup {[GoodRow(1) EXCEPT !.lat = Absent, !.lng = Absent, !.address = Absent],
          [id |-> Absent, customer_name |-> Str(""), lat |-> Num(100),
           lng |-> Num(200), address |-> Null]}
ValidateInputs ==
    {NotArray(k) : k \in {"null", "undefined", "object", "string"}}
    \cup {ArrayOf(items) : items \in UNION {[1..n -> Rows] : n \in 0..MaxRows}}

InitValidate ==
    /\ InitApp
    /\ vdata \in ValidateInputs /\ vresult = None
    /\ InitApiRun
    /\ InitHelperRun
    /\ InitDebounceRun /\ InitExportRun

Validate ==
    /\ IsNull(vresult)
    /\ vresult' = Some(validateDeliveryData(vdata))
    /\ UNCHANGED <<vdata, appVars, apiVars, helperVars, debounceVars, exportVars>>

NextValidate == Validate

SpecValidate == InitValidate /\ [][NextValidate]_vars

\* ----------------------------------------------------- API client, on its own
\* A caller makes up to MaxCalls calls, one after the other; each is sent as
\* one HTTP request and settles when the response (or its failure) arrives.
ApiCall(op) ==
    /\ IsNull(apiCall)
    /\ Len(apiLog) < MaxCalls
    /\ httpLog' = Append(httpLog, ApiPath(op))
    /\ apiCall' = Some(op)
    /\ UNCHANGED <<apiLog, appVars, validateVars, helperVars, debounceVars, exportVars>>

ApiSettles(h) ==
    /\ ~ IsNull(apiCall)
    /\ apiLog' = Append(apiLog, [op |-> Val(apiCall), http |-> h,
                                 result |-> ApiSettled(Val(apiCall), h)])
    /\ apiCall' = None
    /\ UNCHANGED <<httpLog, appVars, validateVars, helperVars, debounceVars, exportVars>>

NextApi ==
    \/ \E op \in ApiOps : ApiCall(op)
    \/ \E h \in HttpOutcomes : ApiSettles(h)

SpecApi == Init /\ [][NextApi]_vars

\* ------------------------------------------------------- display helpers
\* str.trim(): the text without its leading and trailing whitespace.
IsWhitespace(c) == c = " " \/ c = "\t" \/ c = "\n"
RECURSIVE TrimStart(_)
TrimStart(str) ==
    IF Len(str) > 0 /\ IsWhitespace(CharAt(str, 1))
    THEN TrimStart(SubSeq(str, 2, Len(str))) ELSE str
RECURSIVE TrimEnd(_)
TrimEnd(str) ==
    IF Len(str) > 0 /\ IsWhitespace(CharAt(str, Len(str)))
    THEN TrimEnd(SubSeq(str, 1, Len(str) - 1)) ELSE str
TrimMutant(str) == str
Trim(str) == TrimEnd(TrimStart(str))

\* An object as a function from its keys to their values.
EmptyObject == [key \in {} |-> ""]
SetKey(object, key, value) ==
    [k \in DOMAIN object \cup {key} |-> IF k = key THEN value ELSE object[k]]
ObjectKeys(object) == DOMAIN object

validateConstraints(constraints) ==
    LET e1 == IF ~ Truthy(constraints.maxStopsPerRoute)
                 \/ JsLess(constraints.maxStopsPerRoute, 1)
              THEN SetKey(EmptyObject, "maxStopsPerRoute", "Must be at least 1")
              ELSE EmptyObject
        e2 == IF ~ Truthy(constraints.vehicleCapacity)
                 \/ JsLess(constraints.vehicleCapacity, 1)
              THEN SetKey(e1, "vehicleCapacity", "Must be at least 1")
              ELSE e1
        errors == IF ~ Truthy(constraints.startLocation)
                     \/ Trim(constraints.startLocation.s) = ""
                  THEN SetKey(e2, "startLocation", "Start location is required")
                  ELSE e2
    IN  [isValid |-> Cardinality(ObjectKeys(errors)) = 0, errors |-> errors]

colors ==
    <<"#3B82F6", "#EF4444", "#10B981", "#F59E0B",
      "#8B5CF6", "#EC4899", "#14B8A6", "#F97316">>
getRouteColorMutant(index) == colors[(index % (Len(colors) - 1)) + 1]
getRouteColor(index) == colors[(index % Len(colors)) + 1]

\* Durations are in tenths of a minute: 595 is 59.5 minutes. Math.round
\* rounds a half up.
MathRoundTenths(tenths) == (tenths + 5) \div 10
formatTime(minutes) ==
    LET hours == minutes \div 600
        mins == MathRoundTenths(minutes % 600)
    IN  IF hours = 0 THEN ToString(mins) \o " min"
        ELSE ToString(hours) \o "h " \o ToString(mins) \o "m"

\* Distances are in tenths of a meter: 9996 is 0.9996 km. toFixed rounds to
\* the nearest; when the decimal lies halfway, the binary number that stands
\* for it is a little below or a little above, and tieUp says which.
RoundTo(value, unit, tieUp) ==
    IF 2 * (value % unit) > unit \/ (2 * (value % unit) = unit /\ tieUp)
    THEN value \div unit + 1 ELSE value \div unit
TwoDigits(k) == IF k < 10 THEN "0" \o ToString(k) ELSE ToString(k)
formatDistance(distance, tieUp) ==
    IF distance < 10000
    THEN ToString(RoundTo(distance, 10, tieUp)) \o " m"
    ELSE LET hundredths == RoundTo(distance, 100, tieUp)
         IN  ToString(hundredths \div 100) \o "." \o TwoDigits(hundredths % 100) \o " km"

\* Math.min(...values) and Math.max(...values) of numbers.
RECURSIVE MathMin(_)
MathMin(values) ==
    IF Len(values) = 1 THEN values[1]
    ELSE LET rest == MathMin(Tail(values))
         IN  IF values[1] < rest THEN values[1] ELSE rest
RECURSIVE MathMaxMutant(_)
MathMaxMutant(values) ==
    IF Len(values) = 1 THEN values[1] ELSE MathMaxMutant(Tail(values))
RECURSIVE MathMax(_)
MathMax(values) ==
    IF Len(values) = 1 THEN values[1]
    ELSE LET rest == MathMax(Tail(values))
         IN  IF values[1] > rest THEN values[1] ELSE rest
\* points is null (None) or an array of points with a numeric lat and lng.
calculateMapBounds(points) ==
    IF IsNull(points) \/ Len(Val(points)) = 0
    THEN <<<<0, 0>>, <<0, 0>>>>
    ELSE LET lats == [k \in 1..Len(Val(points)) |-> Val(points)[k].lat.n]
             lngs == [k \in 1..Len(Val(points)) |-> Val(points)[k].lng.n]
         IN  <<<<MathMin(lats), MathMin(lngs)>>, <<MathMax(lats), MathMax(lngs)>>>>

\* ----------------------------------------------------- helpers, on their own
\* One call of one helper: the arguments are drawn at the start, the action
\* of the helper applies it and keeps what it returned.
JsonValues ==
    {JsonText("array", <<>>), JsonText("array", <<GoodRow(1)>>),
     JsonText("array", <<GoodRow(1), GoodRow(2)>>),
     JsonText("array", <<Num(1), Num(2)>>),
     JsonText("object", <<GoodRow(1)>>),
     JsonText("number", <<Num(0)>>), JsonText("number", <<Num(5)>>),
     JsonText("string", <<Str("x")>>), JsonText("string", <<Str("")>>),
     JsonText("boolean", <<Bool(TRUE)>>), JsonText("boolean", <<Bool(FALSE)>>),
     JsonText("null", <<Null>>), Garbage, Unreadable}
ConstraintNumbers == {Absent, Null, Str(""), Num(-1), Num(0), Num(1), Num(10)}
ConstraintTexts ==
    {Absent, Str(""), Str(" "), Str(" \t "), Str("Warehouse"), Str(" Depot A ")}
ConstraintInputs ==
    [maxStopsPerRoute : ConstraintNumbers, vehicleCapacity : ConstraintNumbers,
     startLocation : ConstraintTexts]
MapPoints == [lat : {Num(-1), Num(0), Num(2)}, lng : {Num(-3), Num(0), Num(1)}]
RECURSIVE PointArrays(_)
PointArrays(n) ==
    IF n = 0 THEN {<<>>}
    ELSE PointArrays(n - 1)
         \cup {Append(points, p) : points \in {a \in PointArrays(n - 1) : Len(a) = n - 1},
                                   p \in MapPoints}

InitHelpers ==
    /\ InitApp /\ InitValidateRun /\ InitApiRun
    /\ InitDebounceRun /\ InitExportRun
    /\ ret = None
    /\ \/ \E content \in JsonValues :
             call = [fn |-> "parseJSON",
                     file |-> FileOf("data.json", "application/json", content)]
       \/ \E constraints \in ConstraintInputs :
             call = [fn |-> "validateConstraints", constraints |-> constraints]
       \/ \E index \in 0..MaxIndex :
             call = [fn |-> "getRouteColor", index |-> index]
       \/ \E minutes \in 0..MaxMinutes :
             call = [fn |-> "formatTime", minutes |-> minutes]
       \/ \E distance \in 0..MaxDistance :
             call = [fn |-> "formatDistance", distance |-> distance]
       \/ \E points \in {None} \cup {Some(a) : a \in PointArrays(MaxPoints)} :
             call = [fn |-> "calculateMapBounds", points |-> points]

ParseJSON ==
    /\ call.fn = "parseJSON" /\ IsNull(ret)
    /\ ret' = Some(parseJSON(call.file))
    /\ UNCHANGED <<call, appVars, validateVars, apiVars, debounceVars, exportVars>>

ValidateConstraints ==
    /\ call.fn = "validateConstraints" /\ IsNull(ret)
    /\ ret' = Some(validateConstraints(call.constraints))
    /\ UNCHANGED <<call, appVars, validateVars, apiVars, debounceVars, exportVars>>

GetRouteColor ==
    /\ call.fn = "getRouteColor" /\ IsNull(ret)
    /\ ret' = Some(getRouteColor(call.index))
    /\ UNCHANGED <<call, appVars, validateVars, apiVars, debounceVars, exportVars>>

FormatTime ==
    /\ call.fn = "formatTime" /\ IsNull(ret)
    /\ ret' = Some(formatTime(call.minutes))
    /\ UNCHANGED <<call, appVars, validateVars, apiVars, debounceVars, exportVars>>

FormatDistance ==
    /\ call.fn = "formatDistance" /\ IsNull(ret)
    /\ \E tieUp \in BOOLEAN : ret' = Some(formatDistance(call.distance, tieUp))
    /\ UNCHANGED <<call, appVars, validateVars, apiVars, debounceVars, exportVars>>

CalculateMapBounds ==
    /\ call.fn = "calculateMapBounds" /\ IsNull(ret)
    /\ ret' = Some(calculateMapBounds(call.points))
    /\ UNCHANGED <<call, appVars, validateVars, apiVars, debounceVars, exportVars>>

NextHelpers ==
    \/ ParseJSON
    \/ ValidateConstraints
    \/ GetRouteColor
    \/ FormatTime
    \/ FormatDistance
    \/ CalculateMapBounds

SpecHelpers == InitHelpers /\ [][NextHelpers]_vars

\* ------------------------------------------------------------ ExportButton
\* routeData is the bundle App passes: routes (shown only when there is at
\* least one), delivery_points and constraints. A route of the response has
\* a stops array, or lacks it (None), and its totals; a stop has the id of a
\* delivery point and the distance from the stop before it.
ExportPoint(id, name, address, lat, lng, window) ==
    [id |-> id, customer_name |-> name, address |-> address, lat |-> lat,
     lng |-> lng, delivery_window |-> window]
ExportStop(id, distance) == [id |-> id, distance |-> distance]
ExportRoute(stops, distance, time) ==
    [stops |-> stops, total_distance |-> distance, estimated_time |-> time]

\* a === b
StrictEquals(a, b) ==
    IF a.t \in {"undefined", "absent"} THEN b.t \in {"undefined", "absent"}
    ELSE a = b
\* value || ''
OrEmpty(value) == IF Truthy(value) THEN value ELSE Str("")
\* value || 0, as a number
OrZero(value) == IF Truthy(value) THEN value.n ELSE 0
\* routeData.delivery_points?.find(p => p.id === stop.id) || {}
NoPoint == ExportPoint(Absent, Absent, Absent, Absent, Absent, Absent)
FindPoint(points, stop) ==
    IF IsNull(points) THEN NoPoint
    ELSE IF \E k \in 1..Len(Val(points)) : StrictEquals(Val(points)[k].id, stop.id)
    THEN Val(points)[CHOOSE k \in 1..Len(Val(points)) :
                        /\ StrictEquals(Val(points)[k].id, stop.id)
                        /\ \A j \in 1..(k - 1) :
                              ~ StrictEquals(Val(points)[j].id, stop.id)]
    ELSE NoPoint

\* The row handleExportCSV pushes for one stop of one route.
FlattenedRow(data, route, routeIndex, stop, stopIndex) ==
    LET point == FindPoint(data.delivery_points, stop)
    IN  [route_id |-> Num(routeIndex + 1),
         stop_sequence |-> Num(stopIndex + 1),
         customer_id |-> stop.id,
         customer_name |-> OrEmpty(point.customer_name),
         address |-> OrEmpty(point.address),
         latitude |-> OrEmpty(point.lat),
         longitude |-> OrEmpty(point.lng),
         delivery_window |-> OrEmpty(point.delivery_window),
         distance_from_previous |-> OrEmpty(stop.distance),
         route_total_distance |-> OrEmpty(route.total_distance),
         route_estimated_time |-> OrEmpty(route.estimated_time)]
RouteRows(data, routeIndex) ==
    LET route == Val(data.routes)[routeIndex + 1]
    IN  [k \in 1..Len(Val(route.stops)) |->
            FlattenedRow(data, route, routeIndex, Val(route.stops)[k], k - 1)]
RECURSIVE FlattenFrom(_, _)
FlattenFrom(data, routeIndex) ==
    IF routeIndex >= Len(Val(data.routes)) THEN <<>>
    ELSE RouteRows(data, routeIndex) \o FlattenFrom(data, routeIndex + 1)
\* flattenedData; routes?.forEach does nothing when routes is null.
FlattenedData(data) ==
    IF IsNull(data.routes) THEN <<>> ELSE FlattenFrom(data, 0)

\* route.stops.length and route.stops.forEach throw a TypeError when a route
\* has no stops array.
ExportThrows(data) ==
    /\ ~ IsNull(data.routes)
    /\ \E k \in 1..Len(Val(data.routes)) : IsNull(Val(data.routes)[k].stops)

\* Papa.unparse of an array of objects: the keys of the first object as the
\* header, one line per object, each value as text (nothing for null and
\* undefined); no text at all for an empty array.
CsvColumns ==
    <<"route_id", "stop_sequence", "customer_id", "customer_name", "address",
      "latitude", "longitude", "delivery_window", "distance_from_previous",
      "route_total_distance", "route_estimated_time">>
CellText(value) ==
    IF value.t = "number" THEN ToString(value.n)
    ELSE IF value.t = "string" THEN value.s
    ELSE IF value.t = "boolean" THEN (IF value.n = 1 THEN "true" ELSE "false")
    ELSE ""
Unparse(rows) ==
    IF Len(rows) = 0 THEN CsvText(<<>>, <<>>)
    ELSE CsvText(CsvColumns,
                 [k \in 1..Len(rows) |->
                     [c \in 1..Len(CsvColumns) |-> CellText(rows[k][CsvColumns[c]])]])

\* JSON.stringify and JSON.parse. A document keeps the shape of the value;
\* each number, string, boolean and null is written as its JSON text, and a
\* property whose value is undefined is left out.
Serializable(value) == value.t \notin {"undefined", "absent"}
JsonLeafTextMutant(value) ==
    IF value.t = "number" THEN ToString(value.n) ELSE "null"
JsonLeafText(value) ==
    IF value.t = "number" THEN ToString(value.n)
    ELSE IF value.t = "string" THEN "\"" \o value.s \o "\""
    ELSE IF value.t = "boolean" THEN (IF value.n = 1 THEN "true" ELSE "false")
    ELSE "null"
ParseLeaf(text) ==
    IF text = "null" THEN Null
    ELSE IF text = "true" THEN Bool(TRUE)
    ELSE IF text = "false" THEN Bool(FALSE)
    ELSE IF CharAt(text, 1) = "\"" THEN Str(SubSeq(text, 2, Len(text) - 1))
    ELSE Num(IntegerValue(text))
StringifyObject(object) ==
    [key \in {k \in DOMAIN object : Serializable(object[k])} |->
        JsonLeafText(object[key])]
\* Reading a key the parsed object lacks gives undefined.
ParseObject(document, keys) ==
    [key \in keys |->
        IF key \in DOMAIN document THEN ParseLeaf(document[key]) ELSE Absent]
StringifyArray(array) == [k \in 1..Len(array) |-> StringifyObject(array[k])]
ParseArray(document, keys) ==
    [k \in 1..Len(document) |-> ParseObject(document[k], keys)]
StringifyRoute(route) ==
    [stops |-> StringifyArray(Val(route.stops)),
     totals |-> StringifyObject([total_distance |-> route.total_distance,
                                 estimated_time |-> route.estimated_time])]
ParseRoute(document) ==
    LET totals == ParseObject(document.totals, {"total_distance", "estimated_time"})
    IN  ExportRoute(Some(ParseArray(document.stops, {"id", "distance"})),
                    totals.total_distance, totals.estimated_time)

\* The summary handleExportJSON computes.
\* routes.reduce((acc, route) => acc + route.stops.length, 0)
RECURSIVE TotalStops(_)
TotalStops(routes) ==
    IF Len(routes) = 0 THEN 0
    ELSE Len(Val(routes[1].stops)) + TotalStops(Tail(routes))
\* routes.reduce((acc, route) => acc + (route.total_distance || 0), 0)
RECURSIVE TotalDistance(_)
TotalDistance(routes) ==
    IF Len(routes) = 0 THEN 0
    ELSE OrZero(routes[1].total_distance) + TotalDistance(Tail(routes))
ExportSummary(data) ==
    IF IsNull(data.routes)
    THEN [total_routes |-> Num(0), total_stops |-> Num(0), total_distance |-> Num(0)]
    ELSE [total_routes |-> Num(Len(Val(data.routes))),
          total_stops |-> Num(TotalStops(Val(data.routes))),
          total_distance |-> Num(TotalDistance(Val(data.routes)))]
GeneratedAt == Str("2024-01-01T00:00:00.000Z")
\* JSON.stringify(exportData, null, 2)
StringifyExport(data) ==
    [generated_at |-> JsonLeafText(GeneratedAt),
     summary |-> StringifyObject(ExportSummary(data)),
     constraints |-> StringifyObject(data.constraints),
     routes |-> [k \in 1..Len(Val(data.routes)) |-> StringifyRoute(Val(data.routes)[k])],
     delivery_points |-> StringifyArray(Val(data.delivery_points))]
\* JSON.parse of an exported document.
ParseExport(document) ==
    [generated_at |-> ParseLeaf(document.generated_at),
     summary |-> ParseObject(document.summary,
                             {"total_routes", "total_stops", "total_distance"}),
     constraints |-> ParseObject(document.constraints, DOMAIN InitialConstraints),
     routes |-> [k \in 1..Len(document.routes) |-> ParseRoute(document.routes[k])],
     delivery_points |-> ParseArray(document.delivery_points, DOMAIN NoPoint)]

\* The catch block of both handlers leaves the component's state alone.
handleExportFailedMutant(button) == [button EXCEPT !.showMenu = FALSE]
handleExportFailed(button) == button
\* setExported(true); setShowMenu(false)
handleExportDone(button) == [button EXCEPT !.exported = TRUE, !.showMenu = FALSE]

\* ---------------------------------------------------------------- debounce
\* A wrapper made by debounce(func, delay), with delay = Delay units of time.
\* timers holds the timeouts that are set: the id setTimeout returned, the
\* arguments the callback will pass to func and the time it becomes due.
DebounceArgs == {"a", "b"}
clearTimeoutMutant(pendingTimers, id) == pendingTimers
clearTimeout(pendingTimers, id) ==
    IF IsNull(id) THEN pendingTimers
    ELSE {t \in pendingTimers : t.id # Val(id)}
\* setTimeout returns a new id each time.
NextTimerId == Cardinality({k \in 1..Len(events) : events[k].kind = "call"}) + 1
TimerDue == \E t \in timers : t.due <= now

\* The wrapper is called with args. A timeout that is due runs before a later
\* event is handled.
DebouncedCall(args) ==
    /\ ~ TimerDue
    /\ NextTimerId <= MaxWrapperCalls
    /\ timers' = clearTimeout(timers, timeoutId)
                    \cup {[id |-> NextTimerId, args |-> args, due |-> now + Delay]}
    /\ timeoutId' = Some(NextTimerId)
    /\ events' = Append(events, [kind |-> "call", at |-> now, args |-> args])
    /\ UNCHANGED <<now, appVars, validateVars, apiVars, helperVars, exportVars>>

\* The callback of a timeout runs: func(...args).
TimeoutRuns(t) ==
    /\ t \in timers /\ t.due <= now
    /\ timers' = timers \ {t}
    /\ events' = Append(events, [kind |-> "func", at |-> now, args |-> t.args])
    /\ UNCHANGED <<timeoutId, now, appVars, validateVars, apiVars, helperVars, exportVars>>

\* Time passes, up to the next timeout that is due.
Tick ==
    /\ ~ TimerDue
    /\ now < MaxTime
    /\ now' = now + 1
    /\ UNCHANGED <<timeoutId, timers, events, appVars, validateVars, apiVars,
                   helperVars, exportVars>>

NextDebounce ==
    \/ \E args \in DebounceArgs : DebouncedCall(args)
    \/ \E t \in timers : TimeoutRuns(t)
    \/ Tick

SpecDebounce == Init /\ [][NextDebounce]_vars

\* ----------------------------------------------------- ExportButton, mounted
PointAnn ==
    ExportPoint(Num(1), Str("Ann"), Str("1 Main St"), Num(40), Num(-74),
                Str("09:00-12:00"))
\* A delivery on the equator and the prime meridian, without a window.
PointBob == ExportPoint(Num(2), Str("Bob"), Str("2 Oak Ave"), Num(0), Num(0), Absent)
StopAnn == ExportStop(Num(1), Num(3))
StopBob == ExportStop(Num(2), Num(5))
StopGone == ExportStop(Num(9), Absent)
StopLists ==
    {None, Some(<<>>), Some(<<StopAnn>>), Some(<<StopAnn, StopBob>>),
     Some(<<StopBob, StopGone>>)}
ExportRoutes ==
    {ExportRoute(stops, distance, Num(45)) :
        stops \in StopLists, distance \in {Num(12), Absent}}
RECURSIVE RouteArrays(_)
RouteArrays(n) ==
    IF n = 0 THEN {<<>>}
    ELSE RouteArrays(n - 1)
         \cup {Append(routes, route) :
                  routes \in {a \in RouteArrays(n - 1) : Len(a) = n - 1},
                  route \in ExportRoutes}
\* App shows the button only when routes holds at least one route.
ExportBundles ==
    {[routes |-> Some(routes), delivery_points |-> Some(points),
      constraints |-> InitialConstraints] :
        routes \in RouteArrays(MaxRoutes) \ {<<>>},
        points \in {<<PointAnn>>, <<PointAnn, PointBob>>}}

InitExport ==
    /\ InitApp /\ InitValidateRun /\ InitApiRun /\ InitHelperRun /\ InitDebounceRun
    /\ exportBtn = InitialExportButton
    /\ routeData \in ExportBundles
    /\ alerts = 0 /\ downloads = <<>> /\ resetTimers = 0

\* A click on the main button.
ToggleMenu ==
    /\ exportBtn' = [exportBtn EXCEPT !.showMenu = ~ @]
    /\ UNCHANGED <<routeData, alerts, downloads, resetTimers>>
    /\ UNCHANGED <<appVars, validateVars, apiVars, helperVars, debounceVars>>

\* A click on the backdrop of the open menu.
CloseMenu ==
    /\ exportBtn.showMenu
    /\ exportBtn' = [exportBtn EXCEPT !.showMenu = FALSE]
    /\ UNCHANGED <<routeData, alerts, downloads, resetTimers>>
    /\ UNCHANGED <<appVars, validateVars, apiVars, helperVars, debounceVars>>

\* A click on "Export as JSON" in the open menu.
HandleExportJSON ==
    /\ exportBtn.showMenu
    /\ Len(downloads) + alerts < MaxExports
    /\ IF ExportThrows(routeData)
       THEN /\ alerts' = alerts + 1
            /\ exportBtn' = handleExportFailed(exportBtn)
            /\ UNCHANGED <<downloads, resetTimers>>
       ELSE /\ downloads' = Append(downloads,
                   [type |-> "application/json", json |-> StringifyExport(routeData)])
            /\ exportBtn' = handleExportDone(exportBtn)
            /\ resetTimers' = resetTimers + 1
            /\ alerts' = alerts
    /\ UNCHANGED routeData
    /\ UNCHANGED <<appVars, validateVars, apiVars, helperVars, debounceVars>>

\* A click on "Export as CSV" in the open menu.
HandleExportCSV ==
    /\ exportBtn.showMenu
    /\ Len(downloads) + alerts < MaxExports
    /\ IF ExportThrows(routeData)
       THEN /\ alerts' = alerts + 1
            /\ exportBtn' = handleExportFailed(exportBtn)
            /\ UNCHANGED <<downloads, resetTimers>>
       ELSE /\ downloads' = Append(downloads,
                   [type |-> "text/csv", csv |-> Unparse(FlattenedData(routeData))])
            /\ exportBtn' = handleExportDone(exportBtn)
            /\ resetTimers' = resetTimers + 1
            /\ alerts' = alerts
    /\ UNCHANGED routeData
    /\ UNCHANGED <<appVars, validateVars, apiVars, helperVars, debounceVars>>

\* setTimeout(() => setExported(false), 2000) runs.
ExportedReset ==
    /\ resetTimers > 0
    /\ resetTimers' = resetTimers - 1
    /\ exportBtn' = [exportBtn EXCEPT !.exported = FALSE]
    /\ UNCHANGED <<routeData, alerts, downloads>>
    /\ UNCHANGED <<appVars, validateVars, apiVars, helperVars, debounceVars>>

NextExport ==
    \/ CloseMenu
    \/ ToggleMenu
    \/ HandleExportJSON
    \/ HandleExportCSV
    \/ ExportedReset

SpecExport == InitExport /\ [][NextExport]_vars

\* ================================================================== claims

\* C1: whenever routes is non-null, the stored routes are the response to a
\* generate-routes request whose delivery_points payload equals the current
\* deliveryData (no result of a superseded generation is stored).
C1_RoutesAreForCurrentData ==
    ~ IsNull(app.routes) =>
        /\ ~ IsNull(hist.routesFor)
        /\ ~ IsNull(app.deliveryData)
        /\ Val(hist.routesFor).delivery_points = Val(app.deliveryData)

\* C2: every completed data load (a successful file upload or a successful
\* sample response) replaces deliveryData by the loaded data and sets routes
\* to null in the same state update.
C2_LoadReplacesDataAndClearsRoutes ==
    [][hist'.lastLoadId # hist.lastLoadId =>
          /\ app'.deliveryData = hist'.lastLoad
          /\ IsNull(app'.routes)]_vars
\* A load has completed after a generation had delivered its routes.
C2_Witness ==
    /\ hist.lastLoadId # 0
    /\ ~ IsNull(hist.lastGen) /\ Val(hist.lastGen).ok
    /\ ~ app.isGenerating
    /\ IsNull(app.routes)
    /\ app.deliveryData = hist.lastLoad

\* C3: a change of a constraint field made while routes is non-null leaves
\* routes null.
C3_ConstraintChangeDiscardsRoutes ==
    [][(app'.constraints # app.constraints /\ ~ IsNull(app.routes))
          => IsNull(app'.routes)]_vars

\* C4: when handleGenerateRoutes runs with deliveryData null or an empty
\* array, no generate-routes request is issued, error becomes 'Please upload
\* delivery data first' and the rest of the state is unchanged.
C4_GenerationRejectedWithoutData ==
    [][(HandleGenerateRoutes
          /\ (IsNull(app.deliveryData) \/ Len(Val(app.deliveryData)) = 0))
        => /\ genReqs' = genReqs
           /\ app'.error = Some(Msg("Please upload delivery data first"))
           /\ app'.isGenerating = app.isGenerating
           /\ app'.routes = app.routes
           /\ app'.deliveryData = app.deliveryData
           /\ app'.constraints = app.constraints]_vars
\* The rejection has happened: an empty sample was loaded and Generate clicked.
C4_Witness ==
    /\ app.deliveryData = Some(<<>>)
    /\ app.error = Some(Msg("Please upload delivery data first"))
    /\ genReqs = {}
    /\ ~ app.isGenerating

\* C5: at most one generate-routes request is outstanding; while one is, the
\* trigger is disabled (isGenerating is true), and isGenerating is true only
\* while one is.
C5_AtMostOneGeneration ==
    /\ Cardinality(genReqs) <= 1
    /\ genReqs # {} => (app.isGenerating /\ GenerateDisabled(app))
    /\ app.isGenerating => genReqs # {}
\* A second generation is outstanding after an earlier one has resolved.
C5_Witness ==
    /\ Cardinality(genReqs) = 1
    /\ ~ IsNull(hist.lastGen)

\* C6: deliveryData is the data delivered by the most recently completed
\* successful load, in whatever order the loads were started, and routes,
\* when non-null, is the response of the most recently completed generation.
C6_LastCompletedWins ==
    /\ hist.lastLoadId # 0 => app.deliveryData = hist.lastLoad
    /\ ~ IsNull(app.routes) =>
           hist.lastGen = Some([ok |-> TRUE, routes |-> Val(app.routes)])
\* The load that completed last was started before one that completed earlier.
C6_Witness ==
    /\ hist.lastLoadId # 0
    /\ hist.lastLoadId < hist.topLoadId
    /\ app.deliveryData = hist.lastLoad

\* C7: a sample-data or generate-routes request is issued only while
\* backendStatus is 'online', and a successful health check leaves
\* backendStatus 'online' with the sample button enabled and the generate
\* button disabled only for want of data or by a generation in progress.
C7_OfflineDisablesBackendActions ==
    [][/\ (sampleReqs' \ sampleReqs # {} \/ genReqs' \ genReqs # {})
             => app.backendStatus = "online"
       /\ \A h \in HttpOutcomes :
             (HealthCheckSettles(h) /\ h.kind = "2xx")
             => /\ app'.backendStatus = "online"
                /\ ~ LoadSampleDisabled(app')
                /\ GenerateDisabled(app')
                     <=> (IsNull(app'.deliveryData) \/ app'.isGenerating)]_vars
\* The backend is offline, data is loaded, and no request is outstanding.
C7_Witness ==
    /\ app.backendStatus = "offline"
    /\ ~ IsNull(app.deliveryData)
    /\ sampleReqs = {} /\ genReqs = {}

\* C8: every API client call is sent as exactly one HTTP request, to the
\* operation's own endpoint; it returns the response body on a 2xx response
\* and otherwise throws one Error whose message is the server's detail when
\* there is one (never for healthCheck), else the operation's fixed message.
C8_FixedMessage(op) ==
    CASE op = "uploadFile" -> "Failed to upload file"
      [] op = "generateRoutes" -> "Failed to generate routes"
      [] op = "getSampleData" -> "Failed to fetch sample data"
      [] op = "healthCheck" -> "Backend server is not responding"
C8_OneRequestOneOutcome ==
    /\ Len(httpLog) = Len(apiLog) + (IF IsNull(apiCall) THEN 0 ELSE 1)
    /\ \A i \in 1..Len(apiLog) :
          LET c == apiLog[i] IN
          /\ httpLog[i] = ApiPath(c.op)
          /\ c.http.kind = "2xx" =>
                (~ c.result.threw /\ c.result.data = c.http.body)
          /\ c.http.kind # "2xx" =>
                /\ c.result.threw
                /\ c.result.message =
                      IF /\ c.op # "healthCheck"
                         /\ c.http.kind = "error_response"
                         /\ c.http.detail.t = "string" /\ c.http.detail.s # ""
                      THEN c.http.detail.s
                      ELSE C8_FixedMessage(c.op)
\* A call has failed with a server-supplied detail and another has succeeded.
C8_Witness ==
    /\ Len(apiLog) = 2
    /\ apiLog[1].http.kind = "error_response"
    /\ apiLog[1].http.detail = Str("Server detail")
    /\ apiLog[1].result.message = "Server detail"
    /\ apiLog[2].http.kind = "2xx"
    /\ Len(httpLog) = 2

\* C9: validateDeliveryData answers isValid = false with the single error
\* 'Data must be a non-empty array' whenever its argument is not an array or
\* is an empty array.
C9_NonEmptyArrayRequired ==
    (~ IsNull(vresult) /\ (vdata.kind # "array" \/ Len(vdata.items) = 0))
    => /\ Val(vresult).isValid = FALSE
       /\ Len(Val(vresult).errors) = 1
       /\ Val(vresult).errors[1].kind = "Data must be a non-empty array"
\* validateDeliveryData([]) has been called.
C9_Witness ==
    /\ ~ IsNull(vresult)
    /\ vdata = ArrayOf(<<>>)
    /\ Val(vresult).isValid = FALSE

\* C10: for a non-empty array, every row and every required field has
\* exactly one 'Missing or empty field' message when the field is absent,
\* null, undefined or '', and none otherwise; isValid is true exactly when no
\* row has such a field and no coordinate is out of range.
C10_IsMissing(v) == v \in {Absent, Null, Undefined, Str("")}
C10_OutOfRange(v, lo, hi) == v.t = "number" /\ (v.n < lo \/ v.n > hi)
C10_Count(errs, row, field) ==
    Cardinality({j \in 1..Len(errs) :
        /\ errs[j].kind = "Missing or empty field"
        /\ errs[j].row = row
        /\ errs[j].field = field})
C10_MissingFieldsReported ==
    (~ IsNull(vresult) /\ vdata.kind = "array" /\ Len(vdata.items) > 0)
    => LET items == vdata.items
           errs == CollectErrors(items)
           fields == {"id", "customer_name", "lat", "lng", "address"}
       IN  /\ \A i \in 1..Len(items) : \A f \in fields :
                 C10_Count(errs, i, f) = IF C10_IsMissing(items[i][f]) THEN 1 ELSE 0
           /\ Val(vresult).isValid <=>
                 \A i \in 1..Len(items) :
                    /\ \A f \in fields : ~ C10_IsMissing(items[i][f])
                    /\ ~ C10_OutOfRange(items[i].lat, -90, 90)
                    /\ ~ C10_OutOfRange(items[i].lng, -180, 180)
\* The test's row without lat, lng and address has been validated: three
\* messages, one per missing field.
C10_Witness ==
    /\ ~ IsNull(vresult)
    /\ vdata = ArrayOf(<<[GoodRow(1) EXCEPT !.lat = Absent, !.lng = Absent,
                                            !.address = Absent]>>)
    /\ Val(vresult).isValid = FALSE
    /\ Len(Val(vresult).errors) = 3

\* C11 (as stated): every row with a numeric latitude outside [-90, 90] has
\* an 'Invalid latitude value' error in the returned list, every row with a
\* numeric longitude outside [-180, 180] an 'Invalid longitude value' error,
\* and values inside the closed ranges have none.
C11_Has(errs, kind, row) ==
    \E j \in 1..Len(errs) : errs[j].kind = kind /\ errs[j].row = row
C11_RangeErrorsReturned ==
    (~ IsNull(vresult) /\ vdata.kind = "array" /\ Len(vdata.items) > 0)
    => \A i \in 1..Len(vdata.items) :
          /\ C11_Has(Val(vresult).errors, "Invalid latitude value", i)
                <=> C10_OutOfRange(vdata.items[i].lat, -90, 90)
          /\ C11_Has(Val(vresult).errors, "Invalid longitude value", i)
                <=> C10_OutOfRange(vdata.items[i].lng, -180, 180)
\* C11 (amended): the range error of every such row is among the collected
\* errors, exactly once, and is returned whenever it is one of the first 10
\* collected; values inside the closed ranges (bounds included) have none.
C11_CountKind(errs, kind, row) ==
    Cardinality({j \in 1..Len(errs) : errs[j].kind = kind /\ errs[j].row = row})
C11_RangeErrorsCollected ==
    (~ IsNull(vresult) /\ vdata.kind = "array" /\ Len(vdata.items) > 0)
    => LET errs == CollectErrors(vdata.items)
           out == Val(vresult).errors
       IN  /\ \A i \in 1..Len(vdata.items) :
                /\ C11_CountKind(errs, "Invalid latitude value", i) =
                      IF C10_OutOfRange(vdata.items[i].lat, -90, 90) THEN 1 ELSE 0
                /\ C11_CountKind(errs, "Invalid longitude value", i) =
                      IF C10_OutOfRange(vdata.items[i].lng, -180, 180) THEN 1 ELSE 0
           /\ \A j \in 1..Len(errs) : j <= 10 => (j <= Len(out) /\ out[j] = errs[j])
           /\ \A j \in 1..Len(out) :
                out[j].kind \in {"Invalid latitude value", "Invalid longitude value"}
                => C11_Has(errs, out[j].kind, out[j].row)
\* The test's row with latitude 100 has been validated.
C11_Witness ==
    /\ ~ IsNull(vresult)
    /\ vdata = ArrayOf(<<[GoodRow(1) EXCEPT !.lat = Num(100)]>>)
    /\ Val(vresult).isValid = FALSE
    /\ Len(Val(vresult).errors) = 1
    /\ Val(vresult).errors[1].kind = "Invalid latitude value"

\* C12: at most 10 messages are returned, they are the first 10 collected,
\* in row order, and isValid is false whenever at least one was collected.
C12_TruncatedToTen ==
    (~ IsNull(vresult) /\ vdata.kind = "array" /\ Len(vdata.items) > 0)
    => LET errs == CollectErrors(vdata.items)
           out == Val(vresult).errors
       IN  /\ Len(out) <= 10
           /\ Len(out) = IF Len(errs) < 10 THEN Len(errs) ELSE 10
           /\ \A j \in 1..Len(out) : out[j] = errs[j]
           /\ \A j \in 1..Len(out) : \A k \in 1..Len(out) :
                 j <= k => out[j].row <= out[k].row
           /\ Val(vresult).isValid <=> Len(errs) = 0
\* More than 10 errors were collected and 10 returned.
C12_Witness ==
    /\ ~ IsNull(vresult)
    /\ vdata.kind = "array"
    /\ Len(CollectErrors(vdata.items)) > 10
    /\ Len(Val(vresult).errors) = 10
    /\ Val(vresult).isValid = FALSE

\* C13 (as stated): a row whose lat or lng is exactly 0, all other fields
\* valid, is reported as having a missing or empty field and makes isValid
\* false.
C13_ZeroRow(item) ==
    /\ (item.lat = Num(0) \/ item.lng = Num(0))
    /\ \A k \in 1..Len(requiredFields) :
          item[requiredFields[k]] # Num(0) => item[requiredFields[k]] = GoodRow(1)[requiredFields[k]]
C13_ZeroCoordinateRejected ==
    (~ IsNull(vresult) /\ vdata.kind = "array"
       /\ \E i \in 1..Len(vdata.items) : C13_ZeroRow(vdata.items[i]))
    => Val(vresult).isValid = FALSE
\* C13 (amended): a required field counts as missing only when it is absent,
\* null, undefined or ''; a row whose lat or lng is exactly 0, all other
\* fields valid, gets no message, and an array of such rows is valid.
C13_ZeroCoordinateAccepted ==
    (~ IsNull(vresult) /\ vdata.kind = "array" /\ Len(vdata.items) > 0)
    => /\ \A i \in 1..Len(vdata.items) :
             C13_ZeroRow(vdata.items[i]) => RowErrors(vdata.items[i], i - 1) = <<>>
       /\ (\A i \in 1..Len(vdata.items) : C13_ZeroRow(vdata.items[i]))
             => (Val(vresult).isValid /\ Val(vresult).errors = <<>>)
\* A row on the equator has been validated and found valid.
C13_Witness ==
    /\ ~ IsNull(vresult)
    /\ vdata = ArrayOf(<<[GoodRow(1) EXCEPT !.lat = Num(0)]>>)
    /\ Val(vresult).isValid

\* C14: parseJSON resolves with the decoded value when the text decodes to an
\* array, resolves with a one-element array holding the object when it
\* decodes to a single object, and rejects for every other decoded shape
\* (number, string, boolean, null) and for text that is not JSON.
C14_OtherShapesRejected ==
    (call.fn = "parseJSON" /\ ~ IsNull(ret)) =>
        LET json == call.file.content
            result == Val(ret)
        IN  IF json.kind = "json" /\ json.shape = "array"
            THEN result.ok /\ result.data = ArrayOf(json.items)
            ELSE IF json.kind = "json" /\ json.shape = "object"
            THEN result.ok /\ result.data = ArrayOf(<<json.items[1]>>)
            ELSE ~ result.ok

\* C15: a file whose MIME type is none of text/csv, application/json and
\* application/vnd.ms-excel and whose extension is neither .csv nor .json is
\* rejected before any parsing: handleFile reports 'Invalid file type'
\* through onError, hands the file to no parser, leaves isProcessing false
\* and does not call onDataLoaded.
C15_UnrecognizedFiles ==
    {file \in Files :
        /\ file.type \notin {"text/csv", "application/json", "application/vnd.ms-excel"}
        /\ fileExtension(file) \notin {".csv", ".json"}}
C15_UnrecognizedRejected ==
    [][\A file \in C15_UnrecognizedFiles :
          HandleFile(file) =>
              /\ app'.error =
                     Some(Msg("Invalid file type. Please upload a CSV or JSON file."))
              /\ upload'.uploadStatus = Some("error")
              /\ pending' = pending /\ IsNull(pending')
              /\ ~ upload'.isProcessing
              /\ upload'.fileName = upload.fileName
              /\ app'.deliveryData = app.deliveryData
              /\ app'.routes = app.routes
              /\ hist' = hist]_vars
\* An unrecognized file has been rejected while loaded data stays in place.
C15_Witness ==
    /\ C15_UnrecognizedFiles # {}
    /\ app.error = Some(Msg("Invalid file type. Please upload a CSV or JSON file."))
    /\ upload.uploadStatus = Some("error")
    /\ IsNull(pending) /\ ~ upload.isProcessing
    /\ ~ IsNull(app.deliveryData)
    /\ upload.fileName # ""

\* C16: for every accepted file the pipeline parse, validate, callback ends
\* with exactly one of onDataLoaded and onError. onDataLoaded receives only
\* data that validateDeliveryData finds valid, and a CSV text with the five
\* required columns and one row gives exactly one record. A validation
\* failure reaches onError as a message that starts with 'Validation failed:'
\* and names the missing field. isProcessing is false again on every path.
C16_MissingColumns(file) ==
    {requiredFields[k] : k \in 1..Len(requiredFields)}
        \ {file.content.header[k] : k \in 1..Len(file.content.header)}
C16_OneRowCsvFiles ==
    {file \in Files :
        /\ fileExtension(file) = ".csv"
        /\ file.content.kind = "csv"
        /\ Len(file.content.lines) = 1
        /\ Len(file.content.lines[1]) = Len(file.content.header)
        /\ \A k \in 1..Len(file.content.lines[1]) : file.content.lines[1][k] # ""}
C16_CompleteCsvFiles == {file \in C16_OneRowCsvFiles : C16_MissingColumns(file) = {}}
C16_PartialCsvFiles == {file \in C16_OneRowCsvFiles : C16_MissingColumns(file) # {}}
C16_OneCallback ==
    \/ /\ hist'.lastLoadId # hist.lastLoadId
       /\ upload'.uploadStatus = Some("success")
       /\ app'.deliveryData = hist'.lastLoad
       /\ IsNull(app'.error)
    \/ /\ hist' = hist
       /\ upload'.uploadStatus = Some("error")
       /\ app'.deliveryData = app.deliveryData
       /\ ~ IsNull(app'.error)
C16_ExactlyOneCallback ==
    [][HandleFileParsed =>
          LET file == Val(pending).file
              loaded == hist'.lastLoadId # hist.lastLoadId
          IN  /\ C16_OneCallback
              /\ ~ upload'.isProcessing
              /\ IsNull(pending')
              /\ loaded =>
                    validateDeliveryData(ArrayOf(Val(app'.deliveryData))).isValid
              /\ file \in C16_CompleteCsvFiles =>
                    loaded /\ Len(Val(app'.deliveryData)) = 1
              /\ file \in C16_PartialCsvFiles =>
                    /\ ~ loaded
                    /\ Val(app'.error).text = "Validation failed: "
                    /\ \A field \in C16_MissingColumns(file) :
                          \E k \in 1..Len(Val(app'.error).details) :
                             Val(app'.error).details[k].field = field]_vars
\* The CSV without its address column has been refused with a validation
\* message naming address, after the complete CSV had been loaded as one
\* record.
C16_Witness ==
    /\ upload.fileName = "partial.csv"
    /\ upload.uploadStatus = Some("error")
    /\ ~ upload.isProcessing
    /\ ~ IsNull(app.error)
    /\ Val(app.error).text = "Validation failed: "
    /\ \E k \in 1..Len(Val(app.error).details) :
          Val(app.error).details[k].field = "address"
    /\ app.deliveryData = Some(<<GoodRow(3)>>)

\* C17: the keys of the errors object validateConstraints returns are exactly
\* the failing fields: maxStopsPerRoute when it is missing or below 1,
\* vehicleCapacity when it is missing or below 1, startLocation when it is
\* empty or only whitespace; isValid is true exactly when errors has no key.
C17_NumberFails(v) == v.t # "number" \/ v.n < 1
C17_TextFails(v) ==
    \/ v.t # "string"
    \/ \A i \in 1..Len(v.s) : SubSeq(v.s, i, i) \in {" ", "\t", "\n"}
C17_FailingFields(constraints) ==
    {field \in {"maxStopsPerRoute", "vehicleCapacity"} :
        C17_NumberFails(constraints[field])}
    \cup {field \in {"startLocation"} : C17_TextFails(constraints[field])}
C17_ErrorsKeyFailingFields ==
    (call.fn = "validateConstraints" /\ ~ IsNull(ret)) =>
        /\ DOMAIN Val(ret).errors = C17_FailingFields(call.constraints)
        /\ Val(ret).isValid <=> (DOMAIN Val(ret).errors = {})
\* A whitespace-only start location beside two valid numbers has been refused
\* with the one key startLocation.
C17_Witness ==
    /\ call.fn = "validateConstraints" /\ ~ IsNull(ret)
    /\ call.constraints.maxStopsPerRoute = Num(10)
    /\ call.constraints.vehicleCapacity = Num(1)
    /\ call.constraints.startLocation = Str(" \t ")
    /\ DOMAIN Val(ret).errors = {"startLocation"}
    /\ ~ Val(ret).isValid

C19_MinutesBelowSixty ==
    (call.fn = "formatTime" /\ ~ IsNull(ret)) =>
        IF call.minutes >= 600
        THEN \E M \in 0..59 :
                Val(ret) = ToString(call.minutes \div 600) \o "h " \o ToString(M) \o "m"
        ELSE \E M \in 0..59 : Val(ret) = ToString(M) \o " min"

\* C20: for every distance of d >= 0 km, formatDistance gives whole meters
\* followed by ' m' exactly when d < 1 and two decimals followed by ' km'
\* exactly when d >= 1; the meters shown are always fewer than 1000.
C20_MetersBelowThousand ==
    (call.fn = "formatDistance" /\ ~ IsNull(ret)) =>
        IF call.distance < 10000
        THEN \E meters \in 0..999 : Val(ret) = ToString(meters) \o " m"
        ELSE \E km \in 1..(call.distance \div 10000 + 1), decimals \in 0..99 :
                Val(ret) = ToString(km) \o "." \o
                           (IF decimals < 10 THEN "0" ELSE "") \o ToString(decimals)
                           \o " km"

\* C21: calculateMapBounds returns [[0,0],[0,0]] for a null or empty
\* collection of points; for a collection that is not empty it returns
\* [[minLat, minLng], [maxLat, maxLng]] such that every point lies inside the
\* box and each of the four bounds is the coordinate of some point.
C21_BoundingBox ==
    (call.fn = "calculateMapBounds" /\ ~ IsNull(ret)) =>
        LET box == Val(ret)
            points == IF IsNull(call.points) THEN <<>> ELSE Val(call.points)
            P == 1..Len(points)
        IN  IF P = {} THEN box = <<<<0, 0>>, <<0, 0>>>>
            ELSE /\ \A k \in P :
                       /\ box[1][1] <= points[k].lat.n /\ points[k].lat.n <= box[2][1]
                       /\ box[1][2] <= points[k].lng.n /\ points[k].lng.n <= box[2][2]
                 /\ \E k \in P : points[k].lat.n = box[1][1]
                 /\ \E k \in P : points[k].lng.n = box[1][2]
                 /\ \E k \in P : points[k].lat.n = box[2][1]
                 /\ \E k \in P : points[k].lng.n = box[2][2]
\* Three points with their largest latitude first and their largest longitude
\* last have got their box.
C21_Witness ==
    /\ call.fn = "calculateMapBounds" /\ ~ IsNull(ret)
    /\ call.points = Some(<<[lat |-> Num(2), lng |-> Num(-3)],
                            [lat |-> Num(0), lng |-> Num(0)],
                            [lat |-> Num(-1), lng |-> Num(1)]>>)
    /\ Val(ret) = <<<<-1, -3>>, <<2, 1>>>>

RECURSIVE C23_PairsFrom(_, _)
C23_PairsFrom(routes, r) ==
    IF r > Len(routes) THEN <<>>
    ELSE [s \in 1..Len(Val(routes[r].stops)) |-> <<r, s>>] \o C23_PairsFrom(routes, r + 1)
C23_Cell(csv, line, column) ==
    csv.lines[line][CHOOSE c \in 1..Len(csv.header) : csv.header[c] = column]
C23_PointOf(stop) ==
    {p \in {Val(routeData.delivery_points)[k] :
               k \in 1..Len(Val(routeData.delivery_points))} : p.id = stop.id}
C23_OneRowPerStop ==
    \A d \in 1..Len(downloads) :
        downloads[d].type = "text/csv" =>
            LET csv == downloads[d].csv
                routes == Val(routeData.routes)
                pairs == C23_PairsFrom(routes, 1)
            IN  /\ Len(csv.lines) = Len(pairs)
                /\ \A k \in 1..Len(pairs) :
                      LET route == routes[pairs[k][1]]
                          stop == Val(route.stops)[pairs[k][2]]
                      IN  /\ C23_Cell(csv, k, "route_id") = ToString(pairs[k][1])
                          /\ C23_Cell(csv, k, "stop_sequence") = ToString(pairs[k][2])
                          /\ C23_Cell(csv, k, "route_total_distance") =
                                CellText(route.total_distance)
                          /\ C23_Cell(csv, k, "route_estimated_time") =
                                CellText(route.estimated_time)
                          /\ \A p \in C23_PointOf(stop) :
                                /\ C23_Cell(csv, k, "customer_name") = CellText(p.customer_name)
                                /\ C23_Cell(csv, k, "address") = CellText(p.address)
                                /\ C23_Cell(csv, k, "latitude") = CellText(p.lat)
                                /\ C23_Cell(csv, k, "longitude") = CellText(p.lng)
                                /\ C23_Cell(csv, k, "delivery_window") =
                                      CellText(p.delivery_window)
                          /\ C23_PointOf(stop) = {} =>
                                \A column \in {"customer_name", "address", "latitude",
                                               "longitude", "delivery_window"} :
                                   C23_Cell(csv, k, column) = ""

\* C24: the JSON export can be read back: parsing the exported text gives
\* routes, delivery_points and constraints equal to those of the bundle, and
\* a summary with total_routes the number of routes, total_stops the sum of
\* the routes' numbers of stops and total_distance the sum of the routes'
\* total_distance, a missing one counting as 0.
RECURSIVE C24_Sum(_, _)
C24_Sum(routes, field) ==
    IF routes = <<>> THEN 0
    ELSE (IF field = "stops" THEN Len(Val(routes[1].stops))
          ELSE IF routes[1].total_distance.t = "number"
          THEN routes[1].total_distance.n ELSE 0)
         + C24_Sum(Tail(routes), field)
C25_RouteWithoutStops ==
    \E k \in 1..Len(Val(routeData.routes)) : Val(routeData.routes)[k].stops = None
C25_FailureRaisesAlert ==
    [][((HandleExportJSON \/ HandleExportCSV) /\ C25_RouteWithoutStops) =>
          /\ alerts' = alerts + 1
          /\ exportBtn'.exported = exportBtn.exported
          /\ exportBtn'.showMenu = exportBtn.showMenu
          /\ downloads' = downloads
          /\ resetTimers' = resetTimers]_vars
\* Two exports of a bundle whose second route has no stops array have each
\* raised the alert; the menu is still open and nothing was exported.
C25_Witness ==
    /\ alerts = 2
    /\ Len(Val(routeData.routes)) = 2
    /\ Val(routeData.routes)[1].stops # None
    /\ Val(routeData.routes)[2].stops = None
    /\ exportBtn.showMenu /\ ~ exportBtn.exported
    /\ downloads = <<>>

\* C26: every state of the orchestrator is in exactly one of four stages: no
\* data (deliveryData null, not generating, routes null), data loaded
\* (deliveryData set, not generating, routes null), generating (deliveryData
\* set, generating, routes null), routes available (deliveryData set, not
\* generating, routes set). So generating implies routes null, and routes
\* set implies deliveryData set.
C26_Stages ==
    {<<IsNull(app.deliveryData), app.isGenerating, IsNull(app.routes)>>}
C26_ExactlyOneStage ==
    C26_Stages \subseteq
        {<<TRUE, FALSE, TRUE>>, <<FALSE, FALSE, TRUE>>,
         <<FALSE, TRUE, TRUE>>, <<FALSE, FALSE, FALSE>>}

\* A second generation is running: the routes the first one delivered have
\* been cleared.
C26_Witness ==
    /\ app.isGenerating
    /\ IsNull(app.routes)
    /\ ~ IsNull(app.deliveryData)
    /\ ~ IsNull(hist.lastGen) /\ Val(hist.lastGen).ok

\* C27: every generation that was started ends and frees the trigger: when
\* the generate-routes request settles, isGenerating becomes false, on
\* success with routes set to the routes of the response and error null, on
\* failure with error set to the failure message and routes left null; and
\* since every request is answered or times out, isGenerating = true always
\* leads to isGenerating = false.
C27_FailureMessage(h) ==
    Some(Msg(IF generateRoutes(h).message # "" THEN generateRoutes(h).message
             ELSE "Failed to generate routes. Please try again."))
C27_SettledReleases ==
    /\ [][\A req \in genReqs, h \in HttpOutcomes :
             GenerateSettles(req, h) =>
                 /\ ~ app'.isGenerating
                 /\ h.kind = "2xx" =>
                       app'.routes = Some(h.body.routes) /\ IsNull(app'.error)
                 /\ h.kind # "2xx" =>
                       app'.error = C27_FailureMessage(h) /\ IsNull(app'.routes)]_vars
    /\ (app.isGenerating ~> ~ app.isGenerating)
\* The same, with the error left as it was on success: the continuation does
\* not touch error when the request succeeds.
C27_SettledReleasesErrorKept ==
    /\ [][\A req \in genReqs, h \in HttpOutcomes :
             GenerateSettles(req, h) =>
                 /\ ~ app'.isGenerating
                 /\ h.kind = "2xx" =>
                       app'.routes = Some(h.body.routes) /\ app'.error = app.error
                 /\ h.kind # "2xx" =>
                       app'.error = C27_FailureMessage(h) /\ IsNull(app'.routes)]_vars
    /\ (app.isGenerating ~> ~ app.isGenerating)
\* A generation has delivered its routes while the error of a file refused
\* during it is still shown.
C27_Witness ==
    /\ ~ app.isGenerating
    /\ ~ IsNull(app.routes)
    /\ ~ IsNull(hist.lastGen) /\ Val(hist.lastGen).ok
    /\ ~ IsNull(app.error)

\* C28: a load that fails leaves the working set as it was: an error of a
\* file upload (handleFileError) and a sample-data request that fails change
\* the error field only; deliveryData, routes, constraints, isGenerating and
\* backendStatus stay exactly what they were.
C28_FailedLoad ==
    \/ /\ ~ upload.isProcessing /\ pending' = pending
       /\ healthReqs' = healthReqs /\ sampleReqs' = sampleReqs
       /\ genReqs' = genReqs /\ edits' = edits
       /\ \E file \in Files : ~ FileTypeCheck[file] /\ HandleFile(file)
    \/ /\ ~ IsNull(pending) /\ IsNull(pending')
       /\ FileSettled[Val(pending).file].callback = "onError"
       /\ HandleFileParsed
    \/ /\ sampleReqs' # sampleReqs
       /\ \E id \in sampleReqs, h \in HttpOutcomes :
              h.kind # "2xx" /\ SampleSettles(id, h)
C28_FailedLoadChangesErrorOnly ==
    [][C28_FailedLoad =>
          /\ ~ IsNull(app'.error)
          /\ app'.deliveryData = app.deliveryData
          /\ app'.routes = app.routes
          /\ app'.constraints = app.constraints
          /\ app'.isGenerating = app.isGenerating
          /\ app'.backendStatus = app.backendStatus
          /\ hist' = hist]_vars
\* The sample request has failed after routes were delivered: the data and
\* the routes are still there beside the error.
C28_Witness ==
    /\ app.error =
          Some(Msg("Failed to load sample data. Please check if backend is running."))
    /\ ~ IsNull(app.deliveryData)
    /\ ~ IsNull(app.routes)
    /\ hist.routesFor # None


\* ---------------------------------------------------------------- C29
\* C29: the health check is issued once per session and backendStatus changes
\* at most once: a health check settles, and backendStatus changes, only on a
\* session that is still 'checking', and the change is to 'online' or to
\* 'offline'; nothing changes backendStatus afterwards.
C29_StatusSettlesOnce ==
    [][(healthReqs' # healthReqs \/ app'.backendStatus # app.backendStatus)
         => /\ app.backendStatus = "checking"
            /\ app'.backendStatus \in {"online", "offline"}]_vars


\* ---------------------------------------------------------------- C30
\* C30: every generate-routes request carries constraints that satisfy the
\* Constraints model: validateConstraints returns isValid = TRUE for the
\* constraints of each request that has been issued.
C30_RequestsCarryValidConstraints ==
    \A req \in genReqs : validateConstraints(req.payload.constraints).isValid

====
